---- MODULE Spec2Model ----
(***************************************************************************)
(* Model of backend/app.py of the stock analyzer: the StockAnalyzer        *)
(* methods get_current_data, get_sentiment_signal, calculate_rsi,          *)
(* get_historical_data and predict_prices, the helpers safe_float,         *)
(* safe_int and safe_round, and the routes get_stock_data and              *)
(* predict_stock.                                                          *)
(*                                                                         *)
(* Numbers.  A Python float is a record [k, n, d]: k = "num" is the        *)
(* rational n/d (d > 0, lowest terms), k = "nan" is NaN, k = "inf" is      *)
(* +infinity (n = 1) or -infinity (n = -1).  Arithmetic is exact: the      *)
(* rounding error of binary floating point is not modelled.  A close of    *)
(* c cents is the float c/100.  A value rounded by safe_round(x, 2) is     *)
(* kept as its number of hundredths.  None is the record NoneVal.          *)
(*                                                                         *)
(* Requests share no state: each component is checked under its own        *)
(* specification (SpecSignal, SpecRsi, SpecHist, SpecPredict), the two     *)
(* routes under SpecApi; the initial states draw the history the data      *)
(* source returns and what the collaborators do during the request.        *)
(***************************************************************************)
EXTENDS Integers, Sequences, FiniteSets, TLC

VARIABLES
    hist,       \* the rows self.stock.history(...) returns for this request
    fault,      \* what goes wrong in the collaborators during this request
    days,       \* the horizon handed to predict_prices
    env,        \* what scikit-learn and the clock do during predict_prices
    today,      \* the calendar day (a day number) of the request
    lastOp,     \* the method that ran last ("none" before any)
    result,     \* what that method returned
    raised,     \* TRUE iff that method let an exception escape to its caller
    trace,      \* predict_prices: its local variables after each loop step
    req,        \* the HTTP request a route serves (NoRequest outside a route)
    calls       \* the calls a route has made, in order

vars == <<hist, fault, days, env, today, lastOp, result, raised, trace, req, calls>>

(***************************************************************************)
(* Floats                                                                  *)
(***************************************************************************)
RECURSIVE Gcd(_, _)
Gcd(a, b) == IF b = 0 THEN a ELSE Gcd(b, a % b)

Abs(x) == IF x < 0 THEN -x ELSE x

Sign(x) == IF x < 0 THEN -1 ELSE IF x > 0 THEN 1 ELSE 0

NaN == [k |-> "nan", n |-> 0, d |-> 1]

Inf == [k |-> "inf", n |-> 1, d |-> 1]

NegInf == [k |-> "inf", n |-> -1, d |-> 1]

\* the float n/d, d # 0, in lowest terms
Q(n, d) ==
    LET g == Gcd(Abs(n), Abs(d))
        s == IF d < 0 THEN -1 ELSE 1
    IN  [k |-> "num", n |-> s * (n \div g), d |-> s * (d \div g)]

Num(n) == [k |-> "num", n |-> n, d |-> 1]

\* a price of c cents
Cents(c) == Q(c, 100)

\* Python's None where a float is expected
None == [k |-> "none", n |-> 0, d |-> 1]

IsNone(x) == x.k = "none"

IsNum(x) == x.k = "num"

IsNaN(x) == x.k = "nan"

IsInf(x) == x.k = "inf"

\* x < y and x > y as Python compares floats: FALSE when either is NaN
FLt(x, y) ==
    /\ ~IsNaN(x) /\ ~IsNaN(y)
    /\ IF IsNum(x) /\ IsNum(y) THEN x.n * y.d < y.n * x.d
       ELSE IF IsInf(x) /\ IsInf(y) THEN x.n < y.n
       ELSE IF IsInf(x) THEN x.n < 0
       ELSE y.n > 0

FGt(x, y) == FLt(y, x)

FNeg(x) == IF IsNaN(x) THEN NaN ELSE [x EXCEPT !.n = -x.n]

FAdd(x, y) ==
    IF IsNaN(x) \/ IsNaN(y) THEN NaN
    ELSE IF IsInf(x) /\ IsInf(y) THEN (IF x.n = y.n THEN x ELSE NaN)
    ELSE IF IsInf(x) THEN x
    ELSE IF IsInf(y) THEN y
    ELSE Q(x.n * y.d + y.n * x.d, x.d * y.d)

FSub(x, y) == FAdd(x, FNeg(y))

FMul(x, y) ==
    IF IsNaN(x) \/ IsNaN(y) THEN NaN
    ELSE IF IsInf(x) \/ IsInf(y)
         THEN (IF x.n = 0 \/ y.n = 0 THEN NaN
               ELSE IF Sign(x.n) = Sign(y.n) THEN Inf ELSE NegInf)
    ELSE Q(x.n * y.n, x.d * y.d)

\* numpy division: x/0 is +-inf, 0/0 is NaN
FDiv(x, y) ==
    IF IsNaN(x) \/ IsNaN(y) THEN NaN
    ELSE IF IsInf(y) THEN (IF IsInf(x) THEN NaN ELSE Num(0))
    ELSE IF IsInf(x) THEN (IF Sign(x.n) * Sign(y.n) >= 0 THEN Inf ELSE NegInf)
    ELSE IF y.n = 0
         THEN (IF x.n = 0 THEN NaN ELSE IF x.n > 0 THEN Inf ELSE NegInf)
    ELSE Q(x.n * y.d, x.d * y.n)

(***************************************************************************)
(* safe_round and safe_float                                               *)
(***************************************************************************)
NoneVal == [some |-> FALSE, h |-> 0]

\* a rounded value of h hundredths
Some(h) == [some |-> TRUE, h |-> h]

\* <<floor(n * 10^digits / d), remainder>> for n >= 0, d > 0, by long
\* division, one decimal digit at a time
RECURSIVE LongDiv(_, _, _, _)
LongDiv(q, r, d, digits) ==
    IF digits = 0 THEN <<q, r>>
    ELSE LongDiv(q * 10 + ((r * 10) \div d), (r * 10) % d, d, digits - 1)

\* round(n/d, decimals) for n >= 0, as a number of 10^-decimals: to the
\* nearest, a tie to the even neighbour
RoundNonNeg(n, d, decimals) ==
    LET qr == LongDiv(n \div d, n % d, d, decimals)
        q  == qr[1]
        r  == qr[2]
    IN  IF 2 * r < d THEN q
        ELSE IF 2 * r > d THEN q + 1
        ELSE IF q % 2 = 0 THEN q ELSE q + 1

\* Python's round(x, decimals) of a finite x
Round(x, decimals) ==
    IF x.n < 0 THEN -RoundNonNeg(-x.n, x.d, decimals)
    ELSE RoundNonNeg(x.n, x.d, decimals)

Decimals == 2

\* safe_round(value): None for None, NaN and +-inf, else round(value, 2)
safe_round(value) ==
    IF ~IsNum(value) THEN NoneVal ELSE Some(Round(value, Decimals))

\* safe_float(value, default): the default for None, NaN and +-inf
safe_float(value, default) ==
    IF IsNone(value) \/ IsNaN(value) \/ IsInf(value) THEN default ELSE value

Zero == Num(0)

\* Python's min(x, y) and max(x, y): y when y < x (y > x), else x
PyMin(x, y) == IF FLt(y, x) THEN y ELSE x

PyMax(x, y) == IF FGt(y, x) THEN y ELSE x

(***************************************************************************)
(* pandas Series operations on a sequence of floats                        *)
(***************************************************************************)
\* the sum of xs[lo..hi], by halves
RECURSIVE SumF(_, _, _)
SumF(xs, lo, hi) ==
    IF lo > hi THEN Zero
    ELSE IF lo = hi THEN xs[lo]
    ELSE LET mid == (lo + hi) \div 2
         IN  FAdd(SumF(xs, lo, mid), SumF(xs, mid + 1, hi))

\* mutant: the mean of the rows at hand while the window is not yet full
RollingMeanAt_MinPeriods1(xs, w, i) ==
    LET lo == IF i < w THEN 1 ELSE i - w + 1
    IN  IF \E j \in lo..i : ~IsNum(xs[j]) THEN NaN
        ELSE FDiv(SumF(xs, lo, i), Num(i - lo + 1))

\* xs.rolling(window=w).mean() at row i (1-based): NaN until w rows are in
\* the window, and NaN while the window holds a NaN
RollingMeanAt(xs, w, i) ==
    IF i < w THEN NaN
    ELSE IF \E j \in (i - w + 1)..i : ~IsNum(xs[j]) THEN NaN
    ELSE FDiv(SumF(xs, i - w + 1, i), Num(w))

Rolling(xs, w) == [i \in DOMAIN xs |-> RollingMeanAt(xs, w, i)]

\* xs.diff(): NaN in the first row
Diff(xs) == [i \in DOMAIN xs |-> IF i = 1 THEN NaN ELSE FSub(xs[i], xs[i - 1])]

\* the Close column of a frame
CloseOf(rows) == [i \in 1..Len(rows) |-> rows[i].close]

(***************************************************************************)
(* StockAnalyzer.calculate_rsi                                             *)
(***************************************************************************)
RsiPeriod == 14

\* delta.where(delta > 0, 0): a NaN delta fails the test and becomes 0
GainOf(delta) ==
    [i \in DOMAIN delta |-> IF FGt(delta[i], Zero) THEN delta[i] ELSE Zero]

\* mutant: the losses left negative
LossOf_NotNegated(delta) ==
    [i \in DOMAIN delta |-> IF FLt(delta[i], Zero) THEN delta[i] ELSE Zero]

\* -delta.where(delta < 0, 0)
LossOf(delta) ==
    [i \in DOMAIN delta |-> FNeg(IF FLt(delta[i], Zero) THEN delta[i] ELSE Zero)]

\* mutant: a zero mean loss left in place
ReplaceZero_Kept(xs) == xs

\* loss.replace(0, np.nan)
ReplaceZero(xs) ==
    [i \in DOMAIN xs |-> IF IsNum(xs[i]) /\ xs[i].n = 0 THEN NaN ELSE xs[i]]

\* 100 - (100 / (1 + rs))
RsiFromRs(rs) == FSub(Num(100), FDiv(Num(100), FAdd(Num(1), rs)))

\* calculate_rsi(prices): fails = TRUE is an exception inside the try block,
\* which returns a Series of NaN of the same length
calculate_rsi(prices, fails) ==
    IF fails THEN [i \in DOMAIN prices |-> NaN]
    ELSE
    LET delta     == Diff(prices)
        gain      == Rolling(GainOf(delta), RsiPeriod)
        loss      == Rolling(LossOf(delta), RsiPeriod)
        loss_safe == ReplaceZero(loss)
    IN  [i \in DOMAIN prices |-> RsiFromRs(FDiv(gain[i], loss_safe[i]))]

(***************************************************************************)
(* StockAnalyzer.get_historical_data                                       *)
(***************************************************************************)
MA7Window == 7

MA20Window == 20

MA50Window == 50

\* safe_int(value, default): the default for None; int(NaN) raises
\* ValueError, which is caught
safe_int(value, default) ==
    IF IsNone(value) \/ IsNaN(value) THEN default
    ELSE IF value.n < 0 THEN -((-value.n) \div value.d)
    ELSE value.n \div value.d

\* int(+-inf) raises OverflowError, which safe_int does not catch
SafeIntRaises(value) == IsInf(value)

\* calculate_macd(prices): both EMAs start at the first close and carry
\* their last value over a NaN close, so MACD and Signal are defined from
\* the first finite close on; only whether they are defined is kept.
\* fails = TRUE is an exception inside the try block: two Series of NaN
calculate_macd(prices, fails) ==
    [i \in DOMAIN prices |-> ~fails /\ \E j \in 1..i : IsNum(prices[j])]

\* one dictionary of historical_data
HistoricalRow(row, ma7, ma20, ma50, rsi, macd) ==
    [date |-> row.date,
     close |-> safe_round(row.close),
     volume |-> safe_int(row.volume, 0),
     ma7 |-> safe_round(ma7),
     ma20 |-> safe_round(ma20),
     ma50 |-> safe_round(ma50),
     rsi |-> safe_round(rsi),
     macd_defined |-> macd,
     signal_defined |-> macd]

\* get_historical_data(): flt = "history" is a history() that raises,
\* flt = "rolling" an exception in the moving-average lines; both, and an
\* infinite volume, end in the except branch, which returns []
get_historical_data(rows, flt) ==
    IF flt = "history" THEN <<>>
    ELSE IF Len(rows) = 0 THEN <<>>
    ELSE IF flt = "rolling" THEN <<>>
    ELSE
    LET closes == CloseOf(rows)
        MA7    == Rolling(closes, MA7Window)
        MA20   == Rolling(closes, MA20Window)
        MA50   == Rolling(closes, MA50Window)
        RSI    == calculate_rsi(closes, flt = "rsi")
        MACD   == calculate_macd(closes, flt = "macd")
    IN  IF \E i \in 1..Len(rows) : SafeIntRaises(rows[i].volume) THEN <<>>
        ELSE [i \in 1..Len(rows) |->
                 HistoricalRow(rows[i], MA7[i], MA20[i], MA50[i], RSI[i], MACD[i])]

(***************************************************************************)
(* StockAnalyzer.predict_prices                                            *)
(***************************************************************************)
MinRawRows == 30

MinCleanRows == 20

MA5Window == 5

NoEnv == [outs |-> <<>>, raise_at |-> 0, roll_at |-> 0, r2 |-> Num(1)]

NoTrace == [fitted |-> FALSE, steps |-> <<>>]

\* the return value None
Unavailable == [kind |-> "unavailable"]

\* df['Days'] = np.arange(len(df)) and df['MA5']: the frame before dropna
WithFeatures(rows) ==
    [i \in 1..Len(rows) |->
        [Days |-> i - 1, Volume |-> rows[i].volume, Close |-> rows[i].close,
         MA5 |-> RollingMeanAt(CloseOf(rows), MA5Window, i)]]

\* a row with a missing value in a column
HasNA(r) == IsNaN(r.Volume) \/ IsNaN(r.Close) \/ IsNaN(r.MA5)

NotNA(r) == ~HasNA(r)

\* df.dropna(): the rows without a missing value, in order
DropNA(df) == SelectSeq(df, NotNA)

\* len(df) < 30
InsufficientRaw(rows) == Len(rows) < MinRawRows

\* mutant: the clean-row test off by one
InsufficientClean_OffByOne(df) == Len(df) < MinCleanRows - 1

\* len(df) < 20 after dropna
InsufficientClean(df) == Len(df) < MinCleanRows

\* np.any(np.isnan(X)) or np.any(np.isnan(y))
HasNaNValues(df) ==
    \E i \in 1..Len(df) : IsNaN(df[i].Volume) \/ IsNaN(df[i].MA5) \/ IsNaN(df[i].Close)

\* MinMaxScaler.fit_transform raises ValueError on an infinite value
FitRaises(df) == \E i \in 1..Len(df) : IsInf(df[i].Volume) \/ IsInf(df[i].Close)

\* df['Volume'].mean()
MeanOf(xs) == IF Len(xs) = 0 THEN NaN ELSE FDiv(SumF(xs, 1, Len(xs)), Num(Len(xs)))

\* pred_price = safe_float(scaler_y.inverse_transform(pred_scaled)[0][0])
PredPrice(raw) == safe_float(raw, Zero)

\* mutant: the running average fed with equal weights
NextMa5_EqualWeights(current_ma5, pred_price) ==
    FDiv(FAdd(current_ma5, pred_price), Num(2))

\* current_ma5 = (current_ma5 * 4 + pred_price) / 5
NextMa5(current_ma5, pred_price) ==
    FDiv(FAdd(FMul(current_ma5, Num(4)), pred_price), Num(5))

\* datetime.now() at step i, as a day number: day is the date of the first
\* step, and the clock passes midnight before step e.roll_at (0: it does
\* not)
NowAt(e, day, i) == IF e.roll_at # 0 /\ i >= e.roll_at THEN day + 1 ELSE day

\* the smallest and the largest value of a column of finite floats
MinOf(xs) ==
    CHOOSE x \in {xs[i] : i \in DOMAIN xs} : \A i \in DOMAIN xs : ~FLt(xs[i], x)

MaxOf(xs) ==
    CHOOSE x \in {xs[i] : i \in DOMAIN xs} : \A i \in DOMAIN xs : ~FGt(xs[i], x)

\* what MinMaxScaler().fit keeps of a column: its observed range
FitScaler(xs) == [data_min |-> MinOf(xs), data_max |-> MaxOf(xs)]

\* scaler_X, scaler_y and model after fit_transform and fit on the cleaned
\* frame: the ranges of the three features and of the target, and the
\* model fitted on len(df) rows (its coefficients are not computed: what it
\* projects is in env)
FitOf(df) ==
    [scaler_X |-> <<FitScaler([i \in 1..Len(df) |-> Num(df[i].Days)]),
                    FitScaler([i \in 1..Len(df) |-> df[i].Volume]),
                    FitScaler([i \in 1..Len(df) |-> df[i].MA5])>>,
     scaler_y |-> FitScaler([i \in 1..Len(df) |-> df[i].Close]),
     model |-> [n_samples |-> Len(df)]]

\* the local variables of the projection loop
LoopState(fit, last_day, last_volume, current_ma5) ==
    [fit |-> fit, last_day |-> last_day, last_volume |-> last_volume,
     current_ma5 |-> current_ma5, predictions |-> <<>>, steps |-> <<>>,
     raised |-> FALSE]

\* one iteration of the loop, i = 1..days; scikit-learn raises in step
\* e.raise_at, and otherwise projects the price e.outs[i]
LoopStep(st, e, day, i) ==
    IF e.raise_at = i THEN [st EXCEPT !.raised = TRUE]
    ELSE
    LET future_day == st.last_day + i
        raw        == e.outs[i]
        pred_price == PredPrice(raw)
        next_ma5   == NextMa5(st.current_ma5, pred_price)
        pred_date  == NowAt(e, day, i) + i
    IN  [st EXCEPT
            !.current_ma5 = next_ma5,
            !.predictions = Append(@, [date |-> pred_date,
                                       predictedPrice |-> safe_round(pred_price)]),
            !.steps = Append(@, [i |-> i, fit |-> st.fit,
                                 future_day |-> future_day,
                                 volume |-> st.last_volume,
                                 n_out |-> Len(st.predictions) + 1,
                                 ma5_in |-> st.current_ma5, raw |-> raw,
                                 pred_price |-> pred_price, ma5_out |-> next_ma5])]

\* for i in range(1, days + 1), left at the first exception
RECURSIVE ProjectionLoop(_, _, _, _, _)
ProjectionLoop(st, e, day, i, n) ==
    IF i > n \/ st.raised THEN st
    ELSE ProjectionLoop(LoopStep(st, e, day, i), e, day, i + 1, n)

\* mutant: the percentage without its floor at 0
ConfidencePct_NoFloor(confidence) == PyMin(Num(100), FMul(confidence, Num(100)))

\* confidence_pct = max(0, min(100, confidence * 100))
ConfidencePct(confidence) == PyMax(Num(0), PyMin(Num(100), FMul(confidence, Num(100))))

\* predict_prices(days): <<return value, fitted, loop steps>>.  flt =
\* "history" is a history() that raises; every exception returns None
predict_prices(rows, n, flt, e, day) ==
    IF flt = "history" THEN <<Unavailable, FALSE, <<>>>>
    ELSE IF InsufficientRaw(rows) THEN <<Unavailable, FALSE, <<>>>>
    ELSE
    LET df == DropNA(WithFeatures(rows))
    IN  IF InsufficientClean(df) THEN <<Unavailable, FALSE, <<>>>>
        ELSE IF HasNaNValues(df) THEN <<Unavailable, FALSE, <<>>>>
        ELSE IF FitRaises(df) THEN <<Unavailable, FALSE, <<>>>>
        ELSE
        LET last        == df[Len(df)]
            last_day    == Len(df)
            last_volume == safe_float(last.Volume,
                                      MeanOf([i \in 1..Len(df) |-> df[i].Volume]))
            last_ma5    == safe_float(last.MA5, last.Close)
            st          == ProjectionLoop(LoopState(FitOf(df), last_day, last_volume,
                                                    last_ma5),
                                          e, day, 1, n)
        IN  IF st.raised \/ e.raise_at = n + 1
            THEN <<Unavailable, TRUE, st.steps>>
            ELSE <<[kind |-> "forecast",
                    predictions |-> st.predictions,
                    confidence |-> safe_round(ConfidencePct(e.r2)),
                    model |-> "Linear Regression"],
                   TRUE, st.steps>>

(***************************************************************************)
(* StockAnalyzer.get_sentiment_signal                                      *)
(***************************************************************************)
MinSignalRows == 20

RsiDefault == 50

RsiOversold == 30

RsiOverbought == 70

\* the result of the insufficient-data branch and of the except branch
DegenerateSignal ==
    [kind |-> "signal", signal |-> "HOLD", strength |-> Some(0),
     rsi |-> NoneVal, price_vs_ma20 |-> NoneVal]

\* mutant: the moving-average rule with >= for >
SignalScore_Geq(current_price, ma20, rsi) ==
    (IF ~FLt(current_price, ma20) THEN 1 ELSE -1)
    + (IF FLt(rsi, Num(RsiOversold)) THEN 2
       ELSE IF FGt(rsi, Num(RsiOverbought)) THEN -2 ELSE 0)

\* mutant: a close equal to its moving average scores 0
SignalScore_TieZero(current_price, ma20, rsi) ==
    (IF FGt(current_price, ma20) THEN 1 ELSE IF FLt(current_price, ma20) THEN -1 ELSE 0)
    + (IF FLt(rsi, Num(RsiOversold)) THEN 2
       ELSE IF FGt(rsi, Num(RsiOverbought)) THEN -2 ELSE 0)

\* signal_score after the two scoring rules
SignalScore(current_price, ma20, rsi) ==
    (IF FGt(current_price, ma20) THEN 1 ELSE -1)
    + (IF FLt(rsi, Num(RsiOversold)) THEN 2
       ELSE IF FGt(rsi, Num(RsiOverbought)) THEN -2 ELSE 0)

\* mutant: the tests for the strong labels one point too wide
SignalLabel_Wide(signal_score) ==
    IF signal_score >= 1 THEN "STRONG BUY"
    ELSE IF signal_score <= -1 THEN "STRONG SELL"
    ELSE "HOLD"

SignalLabel(signal_score) ==
    IF signal_score >= 2 THEN "STRONG BUY"
    ELSE IF signal_score = 1 THEN "BUY"
    ELSE IF signal_score = -1 THEN "SELL"
    ELSE IF signal_score <= -2 THEN "STRONG SELL"
    ELSE "HOLD"

\* mutant: the strong labels at two thirds whatever the score
SignalStrength_TwoThirds(signal_score) ==
    IF signal_score >= 2 \/ signal_score <= -2 THEN FMul(Q(2, 3), Num(100))
    ELSE IF signal_score = 0 THEN Num(50)
    ELSE Num(60)

SignalStrength(signal_score) ==
    IF signal_score >= 2 THEN PyMin(Num(100), FMul(Q(signal_score, 3), Num(100)))
    ELSE IF signal_score = 1 THEN Num(60)
    ELSE IF signal_score = -1 THEN Num(60)
    ELSE IF signal_score <= -2
         THEN PyMin(Num(100), FMul(Q(Abs(signal_score), 3), Num(100)))
    ELSE Num(50)

\* ((current_price - ma20) / ma20) * 100 if ma20 != 0 else 0
PriceVsMa20(current_price, ma20) ==
    IF ma20.n # 0 THEN FMul(FDiv(FSub(current_price, ma20), ma20), Num(100))
    ELSE Zero

\* mutant: the row test off by one
InsufficientRows_OffByOne(rows) == Len(rows) < MinSignalRows - 1

\* len(df) < 20
InsufficientRows(rows) == Len(rows) < MinSignalRows

\* the body of the try block once the frame has been fetched; a frame
\* without a Close column (flt = "columns") raises KeyError at df['Close']
SignalOf(rows, flt) ==
    IF InsufficientRows(rows) THEN DegenerateSignal
    ELSE IF flt = "columns" THEN DegenerateSignal
    ELSE
    LET closes        == CloseOf(rows)
        last          == Len(rows)
        current_price == safe_float(closes[last], Zero)
        ma20          == safe_float(RollingMeanAt(closes, MA20Window, last), Zero)
        rsi_series    == calculate_rsi(closes, flt = "rsi")
        rsi           == safe_float(rsi_series[last], Num(RsiDefault))
        signal_score  == SignalScore(current_price, ma20, rsi)
    IN  [kind |-> "signal",
         signal |-> SignalLabel(signal_score),
         strength |-> safe_round(SignalStrength(signal_score)),
         rsi |-> safe_round(rsi),
         price_vs_ma20 |-> safe_round(PriceVsMa20(current_price, ma20))]

\* get_sentiment_signal(): a history() that raises lands in the except branch
get_sentiment_signal(rows, flt) ==
    IF flt = "history" THEN DegenerateSignal ELSE SignalOf(rows, flt)

(***************************************************************************)
(* The price series the data source returns: up to three runs of equal     *)
(* rows                                                                    *)
(***************************************************************************)
\* the columns of a trading day that the methods read (Open, High and Low
\* are formatted like Close and left out)
Row(c, v) == [close |-> c, volume |-> v]

Volume == Num(1000)

\* len rows on consecutive trading days 1..len: r1 up to row c1, r2 up to
\* row c2, r3 after
Series(len, c1, c2, r1, r2, r3) ==
    [i \in 1..len |->
        LET r == IF i <= c1 THEN r1 ELSE IF i <= c2 THEN r2 ELSE r3
        IN  [date |-> i, close |-> r.close, volume |-> r.volume]]

NoResult == [kind |-> "none"]

NoRequest == [route |-> "none"]

(***************************************************************************)
(* The signal classifier on one-month histories                            *)
(***************************************************************************)
MaxSignalRows == 20

\* closes, in cents, that drive the classifier through each of its branches
SignalCloses == {1, 16, 21, 24}

SignalRows == {Row(Cents(c), Volume) : c \in SignalCloses} \cup {Row(NaN, Volume)}

SignalFaults == {"none", "history", "columns", "rsi"}

\* histories of up to three runs when the collaborators work, of up to two
\* runs when one of them fails
InitSignal ==
    /\ fault \in SignalFaults
    /\ \E len \in (MinSignalRows - 1)..MaxSignalRows :
       \E c1 \in 0..len : \E c2 \in (IF fault = "none" THEN c1..len ELSE {len}) :
       \E r1 \in SignalRows, r2 \in SignalRows, r3 \in SignalRows :
           hist = Series(len, c1, c2, r1, r2, r3)
    /\ days = 1
    /\ env = NoEnv
    /\ today = 0
    /\ lastOp = "none"
    /\ result = NoResult
    /\ raised = FALSE
    /\ trace = NoTrace
    /\ req = NoRequest
    /\ calls = <<>>

\* a request runs get_sentiment_signal on the fetched history
GetSentimentSignal ==
    /\ lastOp = "none"
    /\ lastOp' = "get_sentiment_signal"
    /\ result' = get_sentiment_signal(hist, fault)
    /\ raised' = FALSE
    /\ UNCHANGED <<hist, fault, days, env, today, trace, req, calls>>

NextSignal == GetSentimentSignal

SpecSignal == InitSignal /\ [][NextSignal]_vars

(***************************************************************************)
(* Claims about get_sentiment_signal                                       *)
(***************************************************************************)
SignalRan == lastOp = "get_sentiment_signal"

\* the non-degenerate branch: 20 rows or more and nothing raised
SignalComputed == SignalRan /\ Len(hist) >= MinSignalRows /\ fault = "none"

LastClose == hist[Len(hist)].close

\* the arithmetic mean of the last 20 closes, NaN when one of them is NaN
RECURSIVE SumCloses(_, _)
SumCloses(lo, hi) ==
    IF lo = hi THEN hist[lo].close
    ELSE FAdd(SumCloses(lo, (lo + hi) \div 2), SumCloses((lo + hi) \div 2 + 1, hi))

LastMA20 == FDiv(SumCloses(Len(hist) - 19, Len(hist)), Num(20))

\* the latest RSI, 50 when it is unavailable
LastRsi ==
    LET r == calculate_rsi(CloseOf(hist), FALSE)[Len(hist)]
    IN  IF IsNum(r) THEN r ELSE Num(50)

LastRsiAvailable == IsNum(calculate_rsi(CloseOf(hist), FALSE)[Len(hist)])

RefRsiPart ==
    IF FLt(LastRsi, Num(30)) THEN 2 ELSE IF FGt(LastRsi, Num(70)) THEN -2 ELSE 0

\* the score as the claim words it: the float comparison close > MA20
RefScore == (IF FGt(LastClose, LastMA20) THEN 1 ELSE -1) + RefRsiPart

\* the score with a non-finite close or MA20 counted as 0
OrZero(x) == IF IsNum(x) THEN x ELSE Zero

RefScoreCoerced ==
    (IF FGt(OrZero(LastClose), OrZero(LastMA20)) THEN 1 ELSE -1) + RefRsiPart

\* the label and the strength in hundredths the reference mapping gives
RefMapping(score) ==
    IF score >= 2 THEN <<"STRONG BUY", IF score >= 3 THEN 10000 ELSE 6667>>
    ELSE IF score = 1 THEN <<"BUY", 6000>>
    ELSE IF score = -1 THEN <<"SELL", 6000>>
    ELSE IF score <= -2 THEN <<"STRONG SELL", IF score <= -3 THEN 10000 ELSE 6667>>
    ELSE <<"HOLD", 5000>>

MatchesMapping(score) ==
    /\ result.signal = RefMapping(score)[1]
    /\ result.strength = Some(RefMapping(score)[2])

FlatCase ==
    /\ SignalComputed
    /\ IsNum(LastClose) /\ IsNum(LastMA20) /\ LastClose = LastMA20
    /\ ~FLt(LastRsi, Num(30)) /\ ~FGt(LastRsi, Num(70))

\* C2 as stated: with the latest close equal to MA20 and RSI unavailable or
\* in [30, 70], the result is HOLD with strength 50 and deviation 0.
C2_AsStated ==
    FlatCase => /\ result.signal = "HOLD"
                /\ result.strength = Some(5000)
                /\ result.price_vs_ma20 = Some(0)

\* C2 amended: in that case the result is SELL with strength 60 and
\* deviation 0.
C2_FlatIsSell ==
    FlatCase => /\ result.signal = "SELL"
                /\ result.strength = Some(6000)
                /\ result.price_vs_ma20 = Some(0)

\* the close sits on its mean while the RSI is available, within [30, 70]
C2_Witness == FlatCase /\ LastRsiAvailable

MaxRsiRows == 16

\* closes, in cents: a loss of one cent and a gain of 200 dollars
RsiCloses == {1, 2, 20001}

RsiRows == {Row(Cents(c), Volume) : c \in RsiCloses} \cup {Row(NaN, Volume)}

IndicatorFaults == {"none", "history", "rolling", "rsi", "macd"}

InitRsi ==
    /\ fault \in IndicatorFaults
    /\ \E len \in {0} \cup ((RsiPeriod - 1)..MaxRsiRows) :
       \E c1 \in 0..len : \E c2 \in (IF fault = "none" THEN c1..len ELSE {len}) :
       \E r1 \in RsiRows, r2 \in RsiRows, r3 \in RsiRows :
           hist = Series(len, c1, c2, r1, r2, r3)
    /\ days = 1
    /\ env = NoEnv
    /\ today = 0
    /\ lastOp = "none"
    /\ result = NoResult
    /\ raised = FALSE
    /\ trace = NoTrace
    /\ req = NoRequest
    /\ calls = <<>>

\* calculate_rsi on the Close column of the fetched history
CalculateRsi ==
    /\ lastOp = "none"
    /\ lastOp' = "calculate_rsi"
    /\ result' = [kind |-> "rsi", series |-> calculate_rsi(CloseOf(hist), fault = "rsi")]
    /\ raised' = FALSE
    /\ UNCHANGED <<hist, fault, days, env, today, trace, req, calls>>

\* a request runs get_historical_data on the fetched history
GetHistoricalData ==
    /\ lastOp = "none"
    /\ lastOp' = "get_historical_data"
    /\ result' = [kind |-> "historical", rows |-> get_historical_data(hist, fault)]
    /\ raised' = FALSE
    /\ UNCHANGED <<hist, fault, days, env, today, trace, req, calls>>

NextRsi == CalculateRsi \/ GetHistoricalData

SpecRsi == InitRsi /\ [][NextRsi]_vars

(***************************************************************************)
(* Claims about calculate_rsi                                              *)
(***************************************************************************)
RsiRan == lastOp = "calculate_rsi" /\ fault # "rsi"

HistoricalRan ==
    lastOp = "get_historical_data" /\ fault = "none" /\ Len(hist) > 0

\* the close of row i in cents (finite closes only)
CentsAt(i) == (hist[i].close.n * 100) \div hist[i].close.d

\* the change in cents from row i-1 to row i, 0 where it is undefined
ChangeAt(i) ==
    IF i < 2 \/ ~IsNum(hist[i].close) \/ ~IsNum(hist[i - 1].close) THEN 0
    ELSE CentsAt(i) - CentsAt(i - 1)

RECURSIVE GainSum(_, _)
GainSum(lo, hi) ==
    IF lo > hi THEN 0
    ELSE GainSum(lo, hi - 1) + (IF ChangeAt(hi) > 0 THEN ChangeAt(hi) ELSE 0)

RECURSIVE LossSum(_, _)
LossSum(lo, hi) ==
    IF lo > hi THEN 0
    ELSE LossSum(lo, hi - 1) + (IF ChangeAt(hi) < 0 THEN -ChangeAt(hi) ELSE 0)

\* the 14-period mean gain and mean loss of row i, in dollars
MeanGain(i) == Q(GainSum(i - 13, i), 1400)

MeanLoss(i) == Q(LossSum(i - 13, i), 1400)

\* C4 as stated: RSI is absent in each of the first 14 rows (0-based rows
\* 0..13), in the Series of calculate_rsi and in the rsi field.
C4_AsStated ==
    /\ RsiRan =>
         \A i \in 1..Len(hist) : i <= 14 => ~IsNum(result.series[i])
    /\ HistoricalRan =>
         \A i \in 1..Len(hist) : i <= 14 => result.rows[i].rsi = NoneVal

\* C5: a row whose 14-period mean loss is exactly zero has no RSI (not 100,
\* not an infinity); a row with a full window and a non-zero mean loss has
\* RSI = 100 - 100/(1 + meanGain/meanLoss).
C5_RsiFormula ==
    RsiRan =>
        \A i \in 1..Len(hist) :
            i >= 14 =>
                IF LossSum(i - 13, i) = 0
                THEN result.series[i] = NaN
                ELSE result.series[i] =
                         FSub(Num(100),
                              FDiv(Num(100),
                                   FAdd(Num(1), FDiv(MeanGain(i), MeanLoss(i)))))

\* a series with a zero-loss row after gains and a row with a loss
C5_Witness ==
    /\ RsiRan
    /\ \E i \in 14..Len(hist) : LossSum(i - 13, i) = 0 /\ GainSum(i - 13, i) > 0
    /\ \E i \in 14..Len(hist) : LossSum(i - 13, i) > 0 /\ IsNum(result.series[i])

MaxHistRows == 51

\* closes, in cents, whose means are not whole cents
HistCloses == {100, 101}

HistRows == {Row(Cents(c), Volume) : c \in HistCloses} \cup {Row(NaN, Volume)}

\* the lengths around each window
HistLens ==
    {0, MA7Window - 1, MA7Window, MA20Window - 1, MA20Window, MA50Window - 1}
        \cup (MA50Window..MaxHistRows)

\* histories of up to two runs when the collaborators work, of one run when
\* one of them fails
InitHist ==
    /\ fault \in IndicatorFaults
    /\ \E len \in HistLens : \E c1 \in (IF fault = "none" THEN 0..len ELSE {len}) :
       \E r1 \in HistRows, r2 \in HistRows :
           hist = Series(len, c1, len, r1, r2, r2)
    /\ days = 1
    /\ env = NoEnv
    /\ today = 0
    /\ lastOp = "none"
    /\ result = NoResult
    /\ raised = FALSE
    /\ trace = NoTrace
    /\ req = NoRequest
    /\ calls = <<>>

NextHist == GetHistoricalData

SpecHist == InitHist /\ [][NextHist]_vars

(***************************************************************************)
(* Claims about the moving averages of get_historical_data                 *)
(***************************************************************************)
FiniteCloses == \A i \in 1..Len(hist) : IsNum(hist[i].close)

Windows == {7, 20, 50}

MAField(row, w) == IF w = 7 THEN row.ma7 ELSE IF w = 20 THEN row.ma20 ELSE row.ma50

\* the sum in cents of the closes of rows lo..hi
RECURSIVE CentsSum(_, _)
CentsSum(lo, hi) ==
    IF lo > hi THEN 0
    ELSE IF lo = hi THEN CentsAt(lo)
    ELSE CentsSum(lo, (lo + hi) \div 2) + CentsSum((lo + hi) \div 2 + 1, hi)

\* L rows, in the order of the input
SameRows ==
    /\ Len(result.rows) = Len(hist)
    /\ \A i \in 1..Len(hist) : result.rows[i].date = hist[i].date

HistoricalOfFinite ==
    lastOp = "get_historical_data" /\ fault = "none" /\ FiniteCloses

\* C7 as stated: L rows in input order; the w-day field of 0-based row i is
\* absent when i < w-1 and otherwise equals the arithmetic mean of the w
\* closes of rows i-w+1..i.
C7_AsStated ==
    HistoricalOfFinite =>
        /\ SameRows
        /\ \A w \in Windows : \A i \in 1..Len(hist) :
              IF i < w THEN MAField(result.rows[i], w) = NoneVal
              ELSE /\ MAField(result.rows[i], w).some
                   /\ MAField(result.rows[i], w).h * w = CentsSum(i - w + 1, i)

\* C7 amended: L rows in input order; the w-day field of 0-based row i is
\* absent when i < w-1 and otherwise is the arithmetic mean of the w closes
\* of rows i-w+1..i rounded to two decimals (within half a cent of it).
C7_MovingAverages ==
    HistoricalOfFinite =>
        /\ SameRows
        /\ \A w \in Windows : \A i \in 1..Len(hist) :
              IF i < w THEN MAField(result.rows[i], w) = NoneVal
              ELSE /\ MAField(result.rows[i], w).some
                   /\ 2 * Abs(MAField(result.rows[i], w).h * w
                              - CentsSum(i - w + 1, i)) <= w

\* 50 rows or more: the 50-day field is absent in row 49 and present, and
\* not a whole number of cents before rounding, in row 50
C7_Witness ==
    /\ HistoricalOfFinite
    /\ Len(hist) >= 50
    /\ result.rows[49].ma50 = NoneVal
    /\ result.rows[50].ma50.some
    /\ CentsSum(1, 50) % 50 # 0

\* get_historical_data ran on a non-empty series while one indicator
\* computation failed
IndicatorFailed ==
    /\ lastOp = "get_historical_data"
    /\ Len(hist) > 0
    /\ fault \in {"rolling", "rsi", "macd"}

\* what get_historical_data returns for this series when nothing fails
UnfailedRows == get_historical_data(hist, "none")

\* the failure of the rsi or of the macd computation alone leaves L rows,
\* the price fields and the other indicators
OthersKept ==
    /\ Len(result.rows) = Len(hist)
    /\ \A i \in 1..Len(hist) :
          /\ result.rows[i].date = UnfailedRows[i].date
          /\ result.rows[i].close = UnfailedRows[i].close
          /\ result.rows[i].volume = UnfailedRows[i].volume
          /\ fault # "rolling" =>
                /\ result.rows[i].ma7 = UnfailedRows[i].ma7
                /\ result.rows[i].ma20 = UnfailedRows[i].ma20
                /\ result.rows[i].ma50 = UnfailedRows[i].ma50
          /\ fault # "rsi" => result.rows[i].rsi = UnfailedRows[i].rsi
          /\ fault # "macd" =>
                /\ result.rows[i].macd_defined = UnfailedRows[i].macd_defined
                /\ result.rows[i].signal_defined = UnfailedRows[i].signal_defined

\* C14 as stated: on a non-empty series of length L a failure inside one
\* indicator computation (a moving average, RSI, MACD/signal) leaves L rows
\* with the price fields and the other indicators, never an empty sequence.
C14_AsStated == IndicatorFailed => OthersKept

(***************************************************************************)
(* The regression forecaster on six-month histories                        *)
(***************************************************************************)
MaxPredictRows == 31

MaxDays == 2

MaxBadRun == 3

GoodRow == Row(Cents(10000), Volume)

\* a day of the same close with twice the volume
HeavyRow == Row(Cents(10000), Num(2000))

\* rows with a missing close, a missing volume, an infinite volume
BadRows == {Row(NaN, Volume), Row(Cents(10000), NaN), Row(Cents(10000), Inf)}

\* what the fitted model can project: a price, NaN, an infinity
ModelOutputs == {Cents(10450), NaN, Inf}

\* what r2_score can return on 20 training rows or more: a finite number,
\* at most 1
R2Values == {Q(-1, 2), Q(97123, 100000), Num(1)}

Horizons == 1..MaxDays

\* scikit-learn projects a price in every step, the clock stands still
PlainEnvs(n) ==
    {[outs |-> [i \in 1..n |-> Cents(10450)], raise_at |-> 0, roll_at |-> 0,
      r2 |-> Q(97123, 100000)]}

\* every course of the loop: the projections, an exception in step
\* raise_at (n+1: after the loop), midnight between step roll_at - 1 and
\* step roll_at
AllEnvs(n) ==
    {[outs |-> o, raise_at |-> x, roll_at |-> m, r2 |-> r] :
        o \in [1..n -> ModelOutputs], x \in 0..(n + 1), m \in {0} \cup (2..n),
        r \in R2Values}

\* a history with one run of bad rows anywhere and a plain course of the
\* loop, or a history without bad rows and any course of the loop
InitPredict ==
    /\ fault \in {"none", "history"}
    /\ days \in Horizons
    /\ \E len \in (MinRawRows - 1)..MaxPredictRows :
          \/ /\ \E b \in 0..MaxBadRun : \E c1 \in 0..(len - b) : \E bad \in BadRows :
                \E r3 \in {GoodRow, HeavyRow} :
                   hist = Series(len, c1, c1 + b, GoodRow, bad, r3)
             /\ env \in PlainEnvs(days)
          \/ /\ hist = Series(len, len, len, GoodRow, GoodRow, GoodRow)
             /\ fault = "none"
             /\ env \in AllEnvs(days)
    /\ today = 0
    /\ lastOp = "none"
    /\ result = NoResult
    /\ raised = FALSE
    /\ trace = NoTrace
    /\ req = NoRequest
    /\ calls = <<>>

\* a request runs predict_prices(days) on the fetched history
PredictPrices ==
    /\ lastOp = "none"
    /\ lastOp' = "predict_prices"
    /\ LET out == predict_prices(hist, days, fault, env, today)
       IN  /\ result' = out[1]
           /\ trace' = [fitted |-> out[2], steps |-> out[3]]
    /\ raised' = FALSE
    /\ UNCHANGED <<hist, fault, days, env, today, req, calls>>

NextPredict == PredictPrices

SpecPredict == InitPredict /\ [][NextPredict]_vars

(***************************************************************************)
(* Claims about predict_prices                                             *)
(***************************************************************************)
PredictRan == lastOp = "predict_prices"

\* the rows that survive cleaning: a defined 5-day average (the row and the
\* four before it have a close) and no missing value
CleanRowCount ==
    Cardinality({i \in 1..Len(hist) :
                    /\ i >= 5
                    /\ \A j \in (i - 4)..i : ~IsNaN(hist[j].close)
                    /\ ~IsNaN(hist[i].volume)})

\* C8: fewer than 30 raw rows, or 30 and more of which fewer than 20 survive
\* cleaning, give None, and no model is fitted.
C8_InsufficientData ==
    (PredictRan /\ (Len(hist) < 30 \/ CleanRowCount < 20))
        => result = Unavailable /\ ~trace.fitted

\* 30 raw rows or more, 19 of them clean
C8_Witness ==
    /\ PredictRan /\ fault = "none"
    /\ Len(hist) >= 30 /\ CleanRowCount = 19
    /\ result = Unavailable

\* C9 as stated: a non-finite projected price leaves predictedPrice absent and
\* is not fed on as a number.
C9_AsStated ==
    (PredictRan /\ result.kind = "forecast") =>
        \A k \in 1..Len(trace.steps) :
            ~IsNum(trace.steps[k].raw) =>
                /\ result.predictions[k].predictedPrice = NoneVal
                /\ ~IsNum(trace.steps[k].pred_price)

\* an exception was raised somewhere in the pipeline
PipelineRaised == fault = "history" \/ env.raise_at \in 1..(days + 1)

\* C10 as stated: the result is None, or has exactly `days` points dated
\* today+1 .. today+days in order, a confidence and the model identifier;
\* an exception anywhere gives None.
C10_AsStated ==
    PredictRan =>
        /\ \/ result = Unavailable
           \/ /\ result.kind = "forecast"
              /\ Len(result.predictions) = days
              /\ \A k \in 1..days : result.predictions[k].date = today + k
              /\ result.confidence \in {NoneVal} \cup {Some(h) : h \in 0..10000}
              /\ result.model = "Linear Regression"
        /\ PipelineRaised => result = Unavailable

\* a forecast was returned
ForecastReturned == PredictRan /\ result.kind = "forecast"

\* the training-set R-squared times 100, 0 when that is negative and 100
\* when it exceeds 100
ClampedPct ==
    LET pct == FMul(env.r2, Num(100))
    IN  IF FLt(pct, Zero) THEN Zero
        ELSE IF FGt(pct, Num(100)) THEN Num(100)
        ELSE pct

\* C11 as stated: the confidence of a returned forecast is a number in
\* [0, 100], equal to the R-squared times 100 clamped to [0, 100].
C11_AsStated ==
    ForecastReturned =>
        /\ result.confidence.some
        /\ result.confidence.h \in 0..10000
        /\ Q(result.confidence.h, 100) = ClampedPct

\* C11 amended: the confidence of a returned forecast is a number in
\* [0, 100], equal to the R-squared times 100 clamped to [0, 100] and then
\* rounded to two decimals.
C11_Confidence ==
    ForecastReturned =>
        /\ result.confidence.some
        /\ result.confidence.h \in 0..10000
        /\ result.confidence.h = Round(ClampedPct, 2)

\* a forecast whose R-squared is negative, with confidence 0
C11_Witness ==
    /\ ForecastReturned
    /\ FLt(env.r2, Zero)
    /\ result.confidence = Some(0)

\* the day-index values (0-based row numbers of the raw frame) of the rows
\* that survive cleaning
TrainingDays ==
    {i - 1 : i \in {j \in 1..Len(hist) :
                       /\ j >= 5
                       /\ \A m \in (j - 4)..j : ~IsNaN(hist[m].close)
                       /\ ~IsNaN(hist[j].volume)}}

LargestTrainingDay == CHOOSE d \in TrainingDays : \A o \in TrainingDays : o <= d

\* C15 as stated: at step k the day-index feature of the projected vector
\* is the largest training day-index + k, and so greater than every
\* training day-index.
C15_AsStated ==
    PredictRan =>
        \A k \in DOMAIN trace.steps :
            /\ trace.steps[k].future_day = LargestTrainingDay + trace.steps[k].i
            /\ \A d \in TrainingDays : trace.steps[k].future_day > d

\* the last row of the cleaned frame, as a row of the history
LastCleanRow == LargestTrainingDay + 1

SmallestTrainingDay == CHOOSE d \in TrainingDays : \A o \in TrainingDays : d <= o

\* the last real 5-day average: the mean of the closes of the last clean row
\* and of the four rows before it
LastRealMA5 == Q(CentsSum(LastCleanRow - 4, LastCleanRow), 500)

CurrentPriceOf(info) ==
    IF ~IsNone(info.currentPrice) THEN info.currentPrice
    ELSE IF ~IsNone(info.regularMarketPrice) THEN info.regularMarketPrice
    ELSE info.previousClose

\* get_current_data(): None (Unavailable) when self.stock.info raises, when
\* the current price or the previous close is missing or 0, and when
\* int(volume) overflows; else the dictionary (the 52-week range, the
\* market cap and the name are formatted like the fields kept here)
get_current_data(info) ==
    IF info.raises THEN Unavailable
    ELSE
    LET current_price  == safe_float(CurrentPriceOf(info), Zero)
        previous_close == safe_float(info.previousClose, Zero)
        change         == FSub(current_price, previous_close)
        change_percent == FMul(FDiv(change, previous_close), Num(100))
    IN  IF current_price.n = 0 \/ previous_close.n = 0 THEN Unavailable
        ELSE IF SafeIntRaises(info.volume) THEN Unavailable
        ELSE [kind |-> "current",
              currentPrice |-> safe_round(current_price),
              previousClose |-> safe_round(previous_close),
              change |-> safe_round(change),
              changePercent |-> safe_round(change_percent),
              volume |-> safe_int(info.volume, 0)]

(***************************************************************************)
(* The routes /api/stock/<ticker> and /api/predict/<ticker>/<int:days>     *)
(***************************************************************************)
\* jsonify(body), status
Response(status, body) == [kind |-> "response", status |-> status, body |-> body]

ErrorBody == [kind |-> "error"]

\* an entry of the call log: the callee and the horizon handed to it (0
\* where there is none)
Call(op, n) == [op |-> op, days |-> n]

\* the horizon get_stock_data asks for
StockDays == 7

\* mutant: the analysis refused when there is no forecast
StockResponse_NeedsForecast(current_data, historical_data, predictions, sentiment) ==
    IF predictions = Unavailable THEN Response(500, ErrorBody)
    ELSE Response(200, [kind |-> "analysis", current |-> current_data,
                        historical |-> historical_data,
                        predictions |-> predictions, sentiment |-> sentiment])

\* the success response of get_stock_data
StockResponse(current_data, historical_data, predictions, sentiment) ==
    Response(200, [kind |-> "analysis", current |-> current_data,
                   historical |-> historical_data,
                   predictions |-> predictions, sentiment |-> sentiment])

\* get_stock_data(ticker): <<response, calls made>>.  find_ticker is a pure
\* function and the StockAnalyzer constructor does no I/O; the three
\* history() calls (3mo, 6mo, 1mo) are served from the same series rows,
\* each with its own fault; the three methods catch every exception, so
\* the except branch (500) is not entered
get_stock_data(r, rows, e, day) ==
    LET current_data == get_current_data(r.info)
        lookup       == <<Call("find_ticker", 0), Call("get_current_data", 0)>>
    IN  IF current_data = Unavailable THEN <<Response(404, ErrorBody), lookup>>
        ELSE
        LET historical_data == get_historical_data(rows, r.faults.historical)
            predictions     == predict_prices(rows, StockDays, r.faults.predict, e, day)[1]
            sentiment       == get_sentiment_signal(rows, r.faults.sentiment)
        IN  <<StockResponse(current_data, historical_data, predictions, sentiment),
              lookup \o <<Call("get_historical_data", 0),
                          Call("predict_prices", StockDays),
                          Call("get_sentiment_signal", 0)>>>>

\* the limits of the horizon of predict_stock
DaysUpperLimit == 30

DaysLowerLimit == 1

\* mutant: the upper limit itself refused
DaysTooLarge_Geq(n) == n >= DaysUpperLimit

\* days > 30
DaysTooLarge(n) == n > DaysUpperLimit

\* days < 1
DaysTooSmall(n) == n < DaysLowerLimit

\* the converter of <int:days> matches a segment of decimal digits only: a
\* segment with a minus sign matches no rule
IntConverterMatches(seg) == seg.sign = ""

\* and hands int(segment) to the view function
IntConverterValue(seg) == seg.value

\* the integer a segment spells
SegmentInteger(seg) == IF seg.sign = "-" THEN -seg.value ELSE seg.value

\* predict_stock(ticker, days): <<response, calls made>>
predict_stock(n, r, rows, e, day) ==
    IF DaysTooLarge(n) THEN <<Response(400, ErrorBody), <<>>>>
    ELSE IF DaysTooSmall(n) THEN <<Response(400, ErrorBody), <<>>>>
    ELSE
    LET predictions == predict_prices(rows, n, r.faults.predict, e, day)[1]
        made        == <<Call("find_ticker", 0), Call("predict_prices", n)>>
    IN  IF predictions = Unavailable THEN <<Response(500, ErrorBody), made>>
        ELSE <<Response(200, predictions), made>>

\* the URL rule of predict_stock: no match is the router's 404, and the
\* view function does not run
route_predict(r, rows, e, day) ==
    IF ~IntConverterMatches(r.days) THEN <<Response(404, ErrorBody), <<>>>>
    ELSE predict_stock(IntConverterValue(r.days), r, rows, e, day)

(***************************************************************************)
(* The two routes on flat histories                                        *)
(***************************************************************************)
MaxPathDays == 32

\* the <days> segment of the path: digits, with or without a minus sign
PathDays ==
    {[sign |-> "", value |-> v] : v \in 0..MaxPathDays}
        \cup {[sign |-> "-", value |-> v] : v \in 1..MaxPathDays}

NoSegment == [sign |-> "", value |-> 0]

\* the metadata record self.stock.info returns, or its failure
GoodInfo ==
    [raises |-> FALSE, currentPrice |-> Cents(15025), regularMarketPrice |-> None,
     previousClose |-> Cents(14900), volume |-> Num(1000)]

Infos ==
    {[raises |-> FALSE, currentPrice |-> c, regularMarketPrice |-> m,
      previousClose |-> p, volume |-> v] :
        c \in {None, NaN, Zero, Cents(15025)}, m \in {None, Cents(15000)},
        p \in {None, Zero, Cents(14900)}, v \in {None, Num(1000), Inf}}
        \cup {[GoodInfo EXCEPT !.raises = TRUE]}

NoFaults == [historical |-> "none", predict |-> "none", sentiment |-> "none"]

RouteFaults ==
    [historical : IndicatorFaults, predict : {"none", "history"}, sentiment : SignalFaults]

\* on a flat history the fitted model projects the flat price and fits
\* exactly; scikit-learn may raise in its third call
FlatEnvs ==
    {[outs |-> [i \in 1..DaysUpperLimit |-> Cents(10000)], raise_at |-> x,
      roll_at |-> 0, r2 |-> Num(1)] : x \in {0, 3}}

\* the lengths around the thresholds of the three methods
StockLens == {0, MinSignalRows - 1, MinSignalRows, MinRawRows - 1, MinRawRows}

\* a request for /api/stock/<ticker>: any metadata with working methods, or
\* good metadata with any fault in the methods
InitStock ==
    /\ \E len \in StockLens : \E last \in {GoodRow} \cup BadRows :
           hist = Series(len, len - 1, len, GoodRow, last, last)
    /\ \/ \E i \in Infos :
              /\ req = [route |-> "stock", days |-> NoSegment, info |-> i,
                        faults |-> NoFaults]
              /\ env \in {e \in FlatEnvs : e.raise_at = 0}
       \/ \E f \in RouteFaults :
              /\ req = [route |-> "stock", days |-> NoSegment, info |-> GoodInfo,
                        faults |-> f]
              /\ env \in FlatEnvs
    /\ fault = "none"
    /\ days = StockDays
    /\ today = 0
    /\ lastOp = "none"
    /\ result = NoResult
    /\ raised = FALSE
    /\ trace = NoTrace
    /\ calls = <<>>

\* a request for /api/predict/<ticker>/<days>
InitPredictRoute ==
    /\ \E len \in {MinRawRows - 1, MinRawRows} :
           hist = Series(len, len, len, GoodRow, GoodRow, GoodRow)
    /\ \E seg \in PathDays : \E f \in {"none", "history"} :
           req = [route |-> "predict", days |-> seg, info |-> GoodInfo,
                  faults |-> [NoFaults EXCEPT !.predict = f]]
    /\ env \in FlatEnvs
    /\ fault = "none"
    /\ days = 0
    /\ today = 0
    /\ lastOp = "none"
    /\ result = NoResult
    /\ raised = FALSE
    /\ trace = NoTrace
    /\ calls = <<>>

InitApi == InitStock \/ InitPredictRoute

\* GET /api/stock/<ticker>
GetStockData ==
    /\ lastOp = "none"
    /\ req.route = "stock"
    /\ lastOp' = "get_stock_data"
    /\ LET out == get_stock_data(req, hist, env, today)
       IN  /\ result' = out[1]
           /\ calls' = out[2]
    /\ raised' = FALSE
    /\ UNCHANGED <<hist, fault, days, env, today, trace, req>>

\* GET /api/predict/<ticker>/<days>
PredictStock ==
    /\ lastOp = "none"
    /\ req.route = "predict"
    /\ lastOp' = "predict_stock"
    /\ LET out == route_predict(req, hist, env, today)
       IN  /\ result' = out[1]
           /\ calls' = out[2]
    /\ raised' = FALSE
    /\ UNCHANGED <<hist, fault, days, env, today, trace, req>>

NextApi == GetStockData \/ PredictStock

SpecApi == InitApi /\ [][NextApi]_vars

(***************************************************************************)
(* Claims about the routes                                                 *)
(***************************************************************************)
StockRan == lastOp = "get_stock_data"

\* the current-price lookup fails: get_current_data returns None
CurrentLookupFails == get_current_data(req.info) = Unavailable

\* C12: GET /api/stock/{ticker} answers 404 if and only if the current-price
\* lookup fails; when the lookup succeeds the response is a success with the
\* current, historical, predictions and sentiment sections, each what its
\* method returns, whatever the other methods return.
C12_StockResponse ==
    StockRan =>
        /\ (result.status = 404) <=> CurrentLookupFails
        /\ ~CurrentLookupFails =>
              /\ result.status = 200
              /\ result.body.kind = "analysis"
              /\ result.body.current = get_current_data(req.info)
              /\ result.body.historical =
                     get_historical_data(hist, req.faults.historical)
              /\ result.body.predictions =
                     predict_prices(hist, 7, req.faults.predict, env, today)[1]
              /\ result.body.sentiment =
                     get_sentiment_signal(hist, req.faults.sentiment)

\* a success whose forecast is null, whose historical series is empty and
\* whose signal is the degenerate one
C12_Witness ==
    /\ StockRan
    /\ result.status = 200
    /\ result.body.current.kind = "current"
    /\ result.body.predictions = Unavailable
    /\ result.body.historical = <<>>
    /\ result.body.sentiment = DegenerateSignal

PredictRouteRan == lastOp = "predict_stock"

\* the integer the <days> segment of the request spells
RequestedDays == SegmentInteger(req.days)

\* the positions of the call log at which the forecaster was invoked
ForecasterCalls == {k \in DOMAIN calls : calls[k].op = "predict_prices"}

\* the forecaster was invoked once, with horizon n
InvokedWith(n) ==
    /\ Cardinality(ForecasterCalls) = 1
    /\ \A k \in ForecasterCalls : calls[k].days = n

\* C13 as stated: every integer days < 1 and every days > 30 is answered
\* with HTTP 400 before any ticker resolution, data fetch or forecast; for
\* every days in 1..30 the forecaster is invoked with exactly that horizon.
C13_AsStated ==
    PredictRouteRan =>
        /\ (RequestedDays < 1 \/ RequestedDays > 30) =>
              result.status = 400 /\ calls = <<>>
        /\ RequestedDays \in 1..30 => InvokedWith(RequestedDays)

\* C13 amended: days = 0 and every days > 30 are answered with HTTP 400, a
\* days segment with a minus sign with the router's 404, each before any
\* ticker resolution, data fetch or forecast; for every days in 1..30 the
\* forecaster is invoked with exactly that horizon.
C13_DaysLimits ==
    PredictRouteRan =>
        /\ req.days.sign = "-" => result.status = 404 /\ calls = <<>>
        /\ (req.days.sign = "" /\ (RequestedDays < 1 \/ RequestedDays > 30)) =>
              result.status = 400 /\ calls = <<>>
        /\ RequestedDays \in 1..30 => InvokedWith(RequestedDays)

\* the largest horizon accepted: a forecast of 30 points
C13_Witness ==
    /\ PredictRouteRan
    /\ RequestedDays = 30
    /\ InvokedWith(30)
    /\ result.status = 200
    /\ Len(result.body.predictions) = 30

(***************************************************************************)
(* Claims about the score of get_sentiment_signal                          *)
(***************************************************************************)
\* the moving-average rule adds 1: the latest close, 0 for a NaN, is above
\* the 20-day mean, 0 for a NaN
AboveMA20 == FGt(OrZero(LastClose), OrZero(LastMA20))

\* C17 as stated: in the non-degenerate branch the score never has
\* magnitude 3, so the strength 100 that goes with it is never returned
\* (checked on the series without a missing close: a refutation does not
\* rest on a NaN).
C17_AsStated ==
    (SignalComputed /\ \A i \in 1..Len(hist) : IsNum(hist[i].close)) =>
        /\ Abs(RefScoreCoerced) # 3
        /\ result.strength # Some(10000)

\* C17 amended: in the non-degenerate branch the score is +3 exactly when
\* the close is above MA20 while RSI < 30, and -3 exactly when the close is
\* not above MA20 while RSI > 70; both happen, and give STRONG BUY and
\* STRONG SELL with strength 100, which no other score gives.
C17_ScoreThree ==
    SignalComputed =>
        /\ (result.signal = "STRONG BUY" /\ result.strength = Some(10000))
              <=> (AboveMA20 /\ FLt(LastRsi, Num(30)))
        /\ (result.signal = "STRONG SELL" /\ result.strength = Some(10000))
              <=> (~AboveMA20 /\ FGt(LastRsi, Num(70)))
        /\ result.strength = Some(10000) <=> Abs(RefScoreCoerced) = 3

\* a close below its 20-day mean after a rise that leaves RSI above 70:
\* score -3
C17_Witness ==
    /\ SignalComputed
    /\ \A i \in 1..Len(hist) : IsNum(hist[i].close)
    /\ FLt(LastClose, LastMA20)
    /\ FGt(LastRsi, Num(70))
    /\ result.signal = "STRONG SELL"
    /\ result.strength = Some(10000)

\* 20 rows or more and no exception out of the try block (one inside
\* calculate_rsi is caught there)
NonDegenerate ==
    SignalRan /\ Len(hist) >= MinSignalRows /\ fault \notin {"history", "columns"}

\* C18: in the non-degenerate branch the score is one of -3, -1, 1, 3: the
\* label and the strength are those of an odd score, never HOLD with
\* strength 50; HOLD is returned only as the degenerate result, strength 0.
C18_OddScore ==
    /\ NonDegenerate =>
          /\ \E sc \in {-3, -1, 1, 3} : MatchesMapping(sc)
          /\ result.signal # "HOLD"
          /\ result.strength # Some(5000)
    /\ (SignalRan /\ result.signal = "HOLD") =>
          /\ result = DegenerateSignal
          /\ ~NonDegenerate

\* a flat series: close on its mean, no RSI, and the label is SELL
C18_Witness ==
    /\ FlatCase
    /\ ~LastRsiAvailable
    /\ \A i \in 1..Len(hist) : hist[i].close = LastClose
    /\ result.signal = "SELL"
    /\ result.strength = Some(6000)

====
